---- MODULE Spec2Model ----
(***************************************************************************)
(* The /api/generateImage serverless endpoint of the virtual try-on        *)
(* repository.  Two handler files exist for the endpoint: the Gemini       *)
(* handler (api/generateImage.js) and an earlier mock handler.  One of     *)
(* them is deployed; the platform runs any number of invocations of it     *)
(* concurrently, each suspending at its awaits.                            *)
(*                                                                         *)
(* A JavaScript string is a sequence of tokens (<<>> is the empty string), *)
(* so that concatenation, split(",") and "contains" are computed.          *)
(***************************************************************************)
EXTENDS Naturals, Sequences, FiniteSets

NumInvocations == 2

Invocations == 1..NumInvocations

(* ---------------- JavaScript values ---------------- *)

Undefined == [t |-> "undefined", v |-> <<>>]

Str(s) == [t |-> "string", v |-> s]

Num(n) == [t |-> "number", v |-> n]

\* !x is FALSE: undefined, "" and 0 are falsy, everything else here is truthy.
Truthy(x) ==
  CASE x.t = "undefined" -> FALSE
    [] x.t = "string" -> x.v # <<>>
    [] x.t = "number" -> x.v # <<"0">>

Contains(s, tok) == \E k \in 1..Len(s) : s[k] = tok

(* ---------------- inbound requests ---------------- *)

Methods == {"POST", "GET"}

DataUrlPhoto == Str(<<"data:image/jpeg;base64", ",", "/9j/4AAQ">>)

UserPhotos == {Undefined, Str(<<>>), DataUrlPhoto, Num(<<"7">>)}

ProductImages == {Undefined, Str(<<"https://example.com/product.jpg">>)}

Prompts == {Str(<<>>), Str(<<"Show how this dress would look on the person">>)}

\* req.body is undefined when the request carries no (parsed) body.
NoBody == [absent |-> TRUE]

Bodies ==
  {NoBody} \cup [userPhoto : UserPhotos, productImage : ProductImages, prompt : Prompts]

Requests == [method : Methods, body : Bodies]

NoRequest == [method |-> "none", body |-> NoBody]

(* ---------------- process configuration ---------------- *)

ApiKeys == {Undefined, Str(<<>>), Str(<<"AIza-key">>)}

NodeEnvs == {"development", "production"}

Handlers == {"gemini", "mock"}

(* ---------------- responses and messages ---------------- *)

NoResponse == [status |-> 0, body |-> [none |-> TRUE]]

Response(status, body) == [status |-> status, body |-> body]

MethodNotAllowedMsg == <<"Method not allowed">>

MissingFieldsMsg == <<"Missing required fields: userPhoto, productImage, or prompt">>

KeyNotConfiguredMsg == <<"Google API key not configured">>

GenericErrorMsg == <<"Failed to generate try-on image. Please try again or check logs.">>

VARIABLES
  handlerFile,  \* which of the two handler files is deployed
  env,          \* process.env
  console,      \* the server-side log: what console.error has written
  pc,           \* per invocation: where the handler is
  req,          \* per invocation: the inbound request
  fetched,      \* per invocation: how fetch(productImage) settled
  bodyRead,     \* per invocation: how productResponse.arrayBuffer() settled
  content,      \* per invocation: the payload given to generateContent
  result,       \* per invocation: how generateContent settled
  mockUrl,      \* per invocation: the mock handler's local generatedImageUrl
  res,          \* per invocation: the response sent
  events        \* per invocation: what the handler did, in order

vars ==
  <<handlerFile, env, console, pc, req, fetched, bodyRead, content, result, mockUrl, res, events>>

(* ---------------- outcomes of the awaited calls ---------------- *)

NotSettled == [kind |-> "none"]

\* fetch(productImage): rejects (network error, invalid URL) or resolves with a
\* Response carrying ok, statusText and the content-type header (<<>>: no header).
FetchOutcomes ==
  { [kind |-> "rejected", ok |-> FALSE, statusText |-> <<>>, contentType |-> <<>>,
     error |-> <<"fetch failed">>],
    [kind |-> "response", ok |-> FALSE, statusText |-> <<"Not Found">>, contentType |-> <<>>,
     error |-> <<>>],
    [kind |-> "response", ok |-> TRUE, statusText |-> <<"OK">>, contentType |-> <<>>,
     error |-> <<>>],
    [kind |-> "response", ok |-> TRUE, statusText |-> <<"OK">>,
     contentType |-> <<"image/jpeg">>, error |-> <<>>] }

\* productResponse.arrayBuffer(): rejects (body stream aborted) or gives the bytes.
BodyOutcomes ==
  { [kind |-> "rejected", bytes |-> <<>>, error |-> <<"terminated">>],
    [kind |-> "bytes", bytes |-> <<"FFD8", "FFE0">>, error |-> <<>>] }

\* Part shapes a provider candidate can carry.
ImagePart(data) == [inlineData |-> [mimeType |-> <<"image/png">>, data |-> data]]

TextPart == [text |-> <<"The dress would look excellent on the person">>]

GeneratedData == <<"iVBORw0KGgo">>

\* result.response of model.generateContent: the candidates array.
ProviderResponses ==
  { [candidates |-> <<>>],
    [candidates |-> <<[finishReason |-> "SAFETY"]>>],
    [candidates |-> <<[content |-> [parts |-> <<>>]]>>],
    [candidates |-> <<[content |-> [parts |-> <<TextPart>>]]>>],
    [candidates |-> <<[content |-> [parts |-> <<[inlineData |-> [mimeType |-> <<"image/png">>]]>>]]>>],
    [candidates |-> <<[content |-> [parts |-> <<ImagePart(<<>>)>>]]>>],
    [candidates |-> <<[content |-> [parts |-> <<ImagePart(GeneratedData)>>]]>>] }

AIOutcomes ==
  { [kind |-> "rejected", response |-> [candidates |-> <<>>],
     error |-> <<"[GoogleGenerativeAI Error]: Error fetching from generativelanguage">>] }
  \cup { [kind |-> "result", response |-> r, error |-> <<>>] : r \in ProviderResponses }

\* Date.now() as read by the mock handler.
ClockReadings == {<<"1730000000000">>, <<"1730000002000">>}

(* ---------------- the handler's checks and conversions ---------------- *)

\* The method check letting GET through as well.
AnyMethodAllowed(method) == method \in {"POST", "GET"}

\* req.method !== "POST" is FALSE
MethodAllowed(method) == method = "POST"

\* !userPhoto || !productImage || !prompt is FALSE
FieldsPresent(body) ==
  Truthy(body.userPhoto) /\ Truthy(body.productImage) /\ Truthy(body.prompt)

\* The credential check left out.
KeyCheckSkipped(apiKey) == TRUE

\* !apiKey is FALSE
KeyConfigured(apiKey) == Truthy(apiKey)

\* The ok test left out: any response counts as fetched.
FetchOkIgnored(outcome) == outcome.kind = "response"

\* !productResponse.ok is FALSE
FetchOk(outcome) == outcome.ok

\* `Failed to fetch product image: ${productResponse.statusText}`
FetchErrorMsg(statusText) == <<"Failed to fetch product image: ">> \o statusText

\* Buffer.from(productBuffer).toString("base64"), byte group by byte group.
Base64Of(group) ==
  CASE group = "FFD8" -> "/9g="
    [] group = "FFE0" -> "/+A="
    [] OTHER -> "AA=="

Base64(bytes) == [k \in 1..Len(bytes) |-> Base64Of(bytes[k])]

\* productResponse.headers.get("content-type") || "image/png"
ProductMimeType(contentType) == IF contentType # <<>> THEN contentType ELSE <<"image/png">>

\* String.prototype.split: the pieces between the separator tokens.
RECURSIVE Split(_, _)
Split(s, sep) ==
  IF ~Contains(s, sep)
  THEN <<s>>
  ELSE LET k == CHOOSE n \in 1..Len(s) : s[n] = sep /\ \A m \in 1..(n - 1) : s[m] # sep
       IN <<SubSeq(s, 1, k - 1)>> \o Split(SubSeq(s, k + 1, Len(s)), sep)

\* userPhoto.split(",")[1] || userPhoto
UserBase64(photo) ==
  LET pieces == Split(photo, ",")
  IN IF Len(pieces) >= 2 /\ pieces[2] # <<>> THEN pieces[2] ELSE photo

\* The content array given to generateContent.
Payload(prompt, photo, contentType, bytes) ==
  << [text |-> prompt],
     [inlineData |-> [mimeType |-> <<"image/jpeg">>, data |-> UserBase64(photo)]],
     [inlineData |-> [mimeType |-> ProductMimeType(contentType), data |-> Base64(bytes)]] >>

NoPayload == <<>>

Thrown(msg) == [threw |-> TRUE, value |-> <<>>, error |-> msg]

Value(v) == [threw |-> FALSE, value |-> v, error |-> <<>>]

\* The extraction with optional chaining and without the !generatedBase64 test.
ExtractUnchecked(response) ==
  IF /\ Len(response.candidates) > 0
     /\ "content" \in DOMAIN response.candidates[1]
     /\ Len(response.candidates[1].content.parts) > 0
     /\ "inlineData" \in DOMAIN response.candidates[1].content.parts[1]
     /\ "data" \in DOMAIN response.candidates[1].content.parts[1].inlineData
  THEN Value(response.candidates[1].content.parts[1].inlineData.data)
  ELSE Value(<<>>)

\* result.response.candidates[0].content.parts[0].inlineData.data, then the
\* !generatedBase64 test: reading a property of undefined throws a TypeError.
ExtractGenerated(response) ==
  IF Len(response.candidates) = 0
  THEN Thrown(<<"Cannot read properties of undefined (reading 'content')">>)
  ELSE LET candidate == response.candidates[1]
       IN IF "content" \notin DOMAIN candidate
          THEN Thrown(<<"Cannot read properties of undefined (reading 'parts')">>)
          ELSE IF Len(candidate.content.parts) = 0
          THEN Thrown(<<"Cannot read properties of undefined (reading 'inlineData')">>)
          ELSE LET part == candidate.content.parts[1]
               IN IF "inlineData" \notin DOMAIN part
                  THEN Thrown(<<"Cannot read properties of undefined (reading 'data')">>)
                  ELSE IF "data" \notin DOMAIN part.inlineData \/ part.inlineData.data = <<>>
                  THEN Thrown(<<"No generated image in Gemini response">>)
                  ELSE Value(part.inlineData.data)

\* The data URL built from all but the last piece of the payload.
DataUrlTruncated(generatedBase64) ==
  <<"data:image/png;base64", ",">> \o SubSeq(generatedBase64, 1, Len(generatedBase64) - 1)

\* `data:image/png;base64,${generatedBase64}`
DataUrl(generatedBase64) == <<"data:image/png;base64", ",">> \o generatedBase64

\* The catch block without its console.error.
NothingLogged(msg) == <<>>

\* console.error("Error in image generation:", error.message || error)
ErrorLogged(msg) == << <<"Error in image generation:">> \o msg >>

\* The catch block echoing error.message to the caller.
CatchResponseEcho(msg) == Response(500, [error |-> msg])

\* res.status(500).json({ error: "Failed to generate try-on image. ..." })
CatchResponse(msg) == Response(500, [error |-> GenericErrorMsg])

(* ---------------- how an invocation ends ---------------- *)

Ev(e, d) == [e |-> e, d |-> d]

\* return res.status(...).json(...)
Send(i, evs, response) ==
  /\ res' = [res EXCEPT ![i] = response]
  /\ pc' = [pc EXCEPT ![i] = "done"]
  /\ events' = [events EXCEPT ![i] = events[i] \o evs \o <<Ev("respond", <<>>)>>]

\* The catch block re-issuing the fetch once before it gives up.
CatchRetry(i, evs, msg) ==
  IF \A k \in 1..Len(events[i]) : events[i][k].e # "log"
  THEN /\ console' = console \o <<msg>>
       /\ pc' = [pc EXCEPT ![i] = "awaitFetch"]
       /\ events' = [events EXCEPT ![i] =
                       events[i] \o evs \o <<Ev("log", msg), Ev("fetch", <<>>)>>]
       /\ UNCHANGED res
  ELSE /\ console' = console \o <<msg>>
       /\ Send(i, evs \o <<Ev("log", msg)>>, Response(500, [error |-> GenericErrorMsg]))

\* The catch block: console.error, then the 500 response.
Catch(i, evs, msg) ==
  /\ console' = console \o ErrorLogged(msg)
  /\ Send(i, evs \o [k \in 1..Len(ErrorLogged(msg)) |-> Ev("log", ErrorLogged(msg)[k])],
          CatchResponse(msg))

\* An exception thrown outside the try block rejects the handler's promise:
\* the handler sends nothing.
Escapes(i, msg) ==
  /\ pc' = [pc EXCEPT ![i] = "threw"]
  /\ events' = [events EXCEPT ![i] = events[i] \o <<Ev("throw", msg)>>]
  /\ UNCHANGED res

DestructureError == <<"Cannot destructure property 'userPhoto' of 'req.body' as it is undefined.">>

\* userPhoto kept in a module-level variable that another invocation overwrites.
SharedUserPhoto(i) ==
  LET others == {j \in Invocations : j # i /\ pc[j] # "idle" /\ req[j].body # NoBody}
  IN IF others = {}
     THEN req[i].body.userPhoto
     ELSE req[CHOOSE j \in others : TRUE].body.userPhoto

\* The body fields bound by const { userPhoto, productImage, prompt } = req.body.
UserPhotoOf(i) == req[i].body.userPhoto

PromptOf(i) == req[i].body.prompt

FetchEvent(o) ==
  IF o.kind = "rejected" THEN "fetchRejected" ELSE IF o.ok THEN "fetchOk" ELSE "fetchNotOk"

(* ---------------- the Gemini handler ---------------- *)

\* The platform calls handler(req, res): it runs to its first await.
Invoke(i) ==
  /\ handlerFile = "gemini"
  /\ pc[i] = "idle"
  /\ \E r \in Requests :
       /\ req' = [req EXCEPT ![i] = r]
       /\ IF ~MethodAllowed(r.method)
          THEN /\ Send(i, <<>>, Response(405, [error |-> MethodNotAllowedMsg]))
               /\ UNCHANGED console
          ELSE IF r.body = NoBody
          THEN /\ Escapes(i, DestructureError)
               /\ UNCHANGED console
          ELSE IF ~FieldsPresent(r.body)
          THEN /\ Send(i, <<>>, Response(400, [error |-> MissingFieldsMsg]))
               /\ UNCHANGED console
          ELSE IF ~KeyConfigured(env.GOOGLE_API_KEY)
          THEN /\ Send(i, <<>>, Response(500, [error |-> KeyNotConfiguredMsg]))
               /\ UNCHANGED console
          ELSE /\ pc' = [pc EXCEPT ![i] = "awaitFetch"]
               /\ events' = [events EXCEPT ![i] = events[i] \o <<Ev("fetch", r.body.productImage.v)>>]
               /\ UNCHANGED <<res, console>>
  /\ UNCHANGED <<handlerFile, env, fetched, bodyRead, content, result, mockUrl>>

\* await fetch(productImage) settles.
FetchSettles(i) ==
  /\ pc[i] = "awaitFetch"
  /\ \E o \in FetchOutcomes :
       /\ fetched' = [fetched EXCEPT ![i] = o]
       /\ IF o.kind = "rejected"
          THEN Catch(i, <<Ev(FetchEvent(o), o.error)>>, o.error)
          ELSE IF ~FetchOk(o)
          THEN Catch(i, <<Ev(FetchEvent(o), o.statusText)>>, FetchErrorMsg(o.statusText))
          ELSE /\ pc' = [pc EXCEPT ![i] = "awaitBody"]
               /\ events' = [events EXCEPT ![i] =
                               events[i] \o <<Ev(FetchEvent(o), o.statusText), Ev("arrayBuffer", <<>>)>>]
               /\ UNCHANGED <<res, console>>
  /\ UNCHANGED <<handlerFile, env, req, bodyRead, content, result, mockUrl>>

\* await productResponse.arrayBuffer() settles; the payload is assembled and
\* model.generateContent(content) is called.
BodySettles(i) ==
  /\ pc[i] = "awaitBody"
  /\ \E o \in BodyOutcomes :
       /\ bodyRead' = [bodyRead EXCEPT ![i] = o]
       /\ IF o.kind = "rejected"
          THEN /\ Catch(i, <<Ev("bodyRejected", o.error)>>, o.error)
               /\ UNCHANGED content
          ELSE IF UserPhotoOf(i).t # "string"
          THEN /\ Catch(i, <<Ev("bodyOk", <<>>)>>, <<"userPhoto.split is not a function">>)
               /\ UNCHANGED content
          ELSE /\ content' = [content EXCEPT ![i] =
                                Payload(PromptOf(i).v, UserPhotoOf(i).v,
                                        fetched[i].contentType, o.bytes)]
               /\ pc' = [pc EXCEPT ![i] = "awaitAI"]
               /\ events' = [events EXCEPT ![i] =
                               events[i] \o <<Ev("bodyOk", <<>>), Ev("generateContent", <<>>)>>]
               /\ UNCHANGED <<res, console>>
  /\ UNCHANGED <<handlerFile, env, req, fetched, result, mockUrl>>

\* await model.generateContent(content) settles; the result is mapped to the response.
AISettles(i) ==
  /\ pc[i] = "awaitAI"
  /\ \E o \in AIOutcomes :
       /\ result' = [result EXCEPT ![i] = o]
       /\ IF o.kind = "rejected"
          THEN Catch(i, <<Ev("aiRejected", o.error)>>, o.error)
          ELSE LET generated == ExtractGenerated(o.response)
               IN IF generated.threw
                  THEN Catch(i, <<Ev("aiResult", <<>>)>>, generated.error)
                  ELSE /\ Send(i, <<Ev("aiResult", <<>>)>>,
                               Response(200, [generatedImageUrl |-> DataUrl(generated.value)]))
                       /\ UNCHANGED console
  /\ UNCHANGED <<handlerFile, env, req, fetched, bodyRead, content, mockUrl>>

(* ---------------- the mock handler ---------------- *)

MockMissingFieldsMsg == <<"Missing required fields (userPhoto, productImage, prompt)">>

PlaceholderUrl == <<"https://via.placeholder.com/300?text=Try-On+Preview">>

\* `https://your-domain.com/generated/${Date.now()}.jpg`
MockGeneratedUrl(now) == <<"https://your-domain.com/generated/">> \o now \o <<".jpg">>

NoUrl == <<>>

\* The mock handler runs to its await of the 2000 ms timer.  Nothing in its try
\* block throws, so its catch block is never entered.
MockInvoke(i) ==
  /\ handlerFile = "mock"
  /\ pc[i] = "idle"
  /\ \E r \in Requests :
       /\ req' = [req EXCEPT ![i] = r]
       /\ IF ~MethodAllowed(r.method)
          THEN /\ Send(i, <<>>, Response(405, [error |-> MethodNotAllowedMsg]))
               /\ UNCHANGED mockUrl
          ELSE IF r.body = NoBody
          THEN /\ Escapes(i, DestructureError)
               /\ UNCHANGED mockUrl
          ELSE IF ~FieldsPresent(r.body)
          THEN /\ Send(i, <<>>, Response(400, [error |-> MockMissingFieldsMsg]))
               /\ UNCHANGED mockUrl
          ELSE /\ \E now \in ClockReadings :
                    mockUrl' = [mockUrl EXCEPT ![i] =
                                  IF env.NODE_ENV = "development"
                                  THEN PlaceholderUrl
                                  ELSE MockGeneratedUrl(now)]
               /\ pc' = [pc EXCEPT ![i] = "awaitTimer"]
               /\ events' = [events EXCEPT ![i] = events[i] \o <<Ev("setTimeout", <<"2000">>)>>]
               /\ UNCHANGED res
  /\ UNCHANGED <<handlerFile, env, console, fetched, bodyRead, content, result>>

\* The timer fires: the mock handler answers with its URL.
MockTimerFires(i) ==
  /\ pc[i] = "awaitTimer"
  /\ Send(i, <<>>, Response(200, [generatedImageUrl |-> mockUrl[i]]))
  /\ UNCHANGED <<handlerFile, env, console, req, fetched, bodyRead, content, result, mockUrl>>

(* ---------------- the system ---------------- *)

Init ==
  /\ handlerFile \in Handlers
  /\ env \in IF handlerFile = "gemini"
             THEN [GOOGLE_API_KEY : ApiKeys, NODE_ENV : {"production"}]
             ELSE [GOOGLE_API_KEY : {Undefined}, NODE_ENV : NodeEnvs]
  /\ console = <<>>
  /\ pc = [i \in Invocations |-> "idle"]
  /\ req = [i \in Invocations |-> NoRequest]
  /\ fetched = [i \in Invocations |-> NotSettled]
  /\ bodyRead = [i \in Invocations |-> NotSettled]
  /\ content = [i \in Invocations |-> NoPayload]
  /\ result = [i \in Invocations |-> NotSettled]
  /\ mockUrl = [i \in Invocations |-> NoUrl]
  /\ res = [i \in Invocations |-> NoResponse]
  /\ events = [i \in Invocations |-> <<>>]

Next ==
  \E i \in Invocations :
    \/ Invoke(i)
    \/ FetchSettles(i)
    \/ BodySettles(i)
    \/ AISettles(i)
    \/ MockInvoke(i)
    \/ MockTimerFires(i)

Spec == Init /\ [][Next]_vars

(* ---------------- properties ---------------- *)

Started(i) == pc[i] # "idle"

Did(i, e) == \E k \in 1..Len(events[i]) : events[i][k].e = e

Times(i, e) == Cardinality({k \in 1..Len(events[i]) : events[i][k].e = e})

NoOutboundCall(i) == ~Did(i, "fetch") /\ ~Did(i, "generateContent")

ValidBody(body) ==
  /\ body # NoBody
  /\ Truthy(body.userPhoto)
  /\ Truthy(body.productImage)
  /\ Truthy(body.prompt)

CredentialMissing == ~Truthy(env.GOOGLE_API_KEY)

\* C1: an invocation whose request method is not POST is answered with 405 and
\* { error: "Method not allowed" }, whatever its body and the credential, and
\* makes neither the product-image fetch nor the AI-client call.
C1_NonPostIs405 ==
  \A i \in Invocations :
    (Started(i) /\ req[i].method # "POST") =>
      /\ res[i] = Response(405, [error |-> <<"Method not allowed">>])
      /\ NoOutboundCall(i)

C1_Witness ==
  \E i \in Invocations :
    /\ handlerFile = "gemini"
    /\ ~CredentialMissing
    /\ req[i].method = "GET"
    /\ ValidBody(req[i].body)
    /\ res[i].status = 405

\* C2: a POST request in which at least one of userPhoto, productImage, prompt
\* is absent or falsy is answered with 400 and makes no outbound call, whether
\* or not the credential is configured.
C2_MissingFieldIs400 ==
  \A i \in Invocations :
    (Started(i) /\ req[i].method = "POST" /\ ~ValidBody(req[i].body)) =>
      /\ res[i].status = 400
      /\ NoOutboundCall(i)

\* C3: a POST request with all three fields truthy, when GOOGLE_API_KEY is not
\* configured, is answered with 500, and the Gemini handler starts neither the
\* AI-client call nor the product-image fetch.
C3_MissingKeyIs500 ==
  \A i \in Invocations :
    ( /\ handlerFile = "gemini"
      /\ Started(i)
      /\ req[i].method = "POST"
      /\ ValidBody(req[i].body)
      /\ CredentialMissing ) =>
      /\ res[i].status = 500
      /\ NoOutboundCall(i)

C3_Witness ==
  \E i \in Invocations :
    /\ handlerFile = "gemini"
    /\ env.GOOGLE_API_KEY = Undefined
    /\ req[i].method = "POST"
    /\ ValidBody(req[i].body)
    /\ res[i].status = 500

\* Whether some piece of detail occurs in the text.
Reveals(text, detail) == \E k \in 1..Len(detail) : Contains(text, detail[k])

\* The provider response carries candidates[0].content.parts[0].inlineData.data, non-empty.
HasOutputField(response) ==
  /\ Len(response.candidates) >= 1
  /\ "content" \in DOMAIN response.candidates[1]
  /\ Len(response.candidates[1].content.parts) >= 1
  /\ "inlineData" \in DOMAIN response.candidates[1].content.parts[1]
  /\ "data" \in DOMAIN response.candidates[1].content.parts[1].inlineData
  /\ response.candidates[1].content.parts[1].inlineData.data # <<>>

OutputField(response) == response.candidates[1].content.parts[1].inlineData.data

\* C4: when the product-image fetch completes with a non-success status, the
\* Gemini handler answers 500 with the fixed generic error string, which does
\* not contain the upstream status text.
C4_FetchNotOkIsGeneric500 ==
  \A i \in Invocations :
    (fetched[i].kind = "response" /\ ~fetched[i].ok) =>
      /\ res[i].status = 500
      /\ res[i].body =
           [error |-> <<"Failed to generate try-on image. Please try again or check logs.">>]
      /\ ~Reveals(res[i].body.error, fetched[i].statusText)

C4_Witness ==
  \E i \in Invocations :
    /\ fetched[i].kind = "response"
    /\ fetched[i].statusText = <<"Not Found">>
    /\ pc[i] = "done"
    /\ Did(i, "log")

\* C5: when the provider's result lacks the expected output field (no first
\* candidate, no content, no first part, no inlineData, data missing or
\* empty), the handler answers 500 and never 200.
C5_NoOutputIs500 ==
  \A i \in Invocations :
    (result[i].kind = "result" /\ ~HasOutputField(result[i].response)) =>
      res[i].status = 500

C5_Witness ==
  /\ \E i \in Invocations :
       /\ result[i].kind = "result"
       /\ result[i].response.candidates = <<>>
       /\ res[i].status = 500
  /\ \E i \in Invocations :
       /\ result[i].kind = "result"
       /\ result[i].response.candidates # <<>>
       /\ ~HasOutputField(result[i].response)
       /\ res[i].status = 500

\* C6: a POST request with all three fields truthy, a configured credential, a
\* successful product-image fetch and a provider result containing the output
\* field is answered with 200 and a body whose generatedImageUrl carries that
\* field's value unaltered, as the payload of the data URL.
C6_SuccessIs200Verbatim ==
  \A i \in Invocations :
    (result[i].kind = "result" /\ HasOutputField(result[i].response)) =>
      /\ req[i].method = "POST"
      /\ ValidBody(req[i].body)
      /\ ~CredentialMissing
      /\ fetched[i].ok
      /\ res[i].status = 200
      /\ res[i].body =
           [generatedImageUrl |->
              <<"data:image/png;base64", ",">> \o OutputField(result[i].response)]

C6_Witness ==
  \E i \in Invocations :
    /\ result[i].kind = "result"
    /\ HasOutputField(result[i].response)
    /\ res[i].status = 200
    /\ Did(i, "fetch")
    /\ Did(i, "generateContent")

\* The position of the first event e of invocation i (0: none).
FirstAt(i, e) ==
  IF Did(i, e)
  THEN CHOOSE k \in 1..Len(events[i]) :
         events[i][k].e = e /\ \A m \in 1..(k - 1) : events[i][m].e # e
  ELSE 0

GenericBody == [error |-> <<"Failed to generate try-on image. Please try again or check logs.">>]

\* The body of the 500 response reveals nothing of what invocation i logged.
HidesLoggedDetail(i) ==
  \A k \in 1..Len(events[i]) :
    events[i][k].e = "log" => ~Reveals(res[i].body.error, events[i][k].d)

\* C7 as stated: every 500 response carries the one fixed generic message,
\* whichever failure caused it.
C7_Every500IsGeneric ==
  \A i \in Invocations : res[i].status = 500 => res[i].body = GenericBody

\* C7 as amended: a 500 response sent after the credential check has passed
\* carries the fixed generic message and nothing of the logged error detail;
\* the 500 response for a missing credential carries the different fixed
\* message "Google API key not configured".
C7_500IsGenericUnlessKeyMissing ==
  \A i \in Invocations :
    res[i].status = 500 =>
      IF CredentialMissing
      THEN res[i].body = [error |-> <<"Google API key not configured">>]
      ELSE res[i].body = GenericBody /\ HidesLoggedDetail(i)

C7_Witness ==
  \E i, j \in Invocations :
    /\ res[i].status = 500
    /\ res[j].status = 500
    /\ Did(i, "fetchNotOk")
    /\ Did(j, "aiRejected")

IsOutboundCall(e) == e \in {"fetch", "arrayBuffer", "generateContent"}

IsFailure(e) == e \in {"fetchRejected", "fetchNotOk", "bodyRejected", "aiRejected", "log", "throw"}

\* C8: within one invocation the fetch is started at most once, the AI-client
\* call at most once and only after the fetch has completed successfully, and
\* after any failure no further outbound call is made.
C8_SequentialNoRetry ==
  \A i \in Invocations :
    /\ Times(i, "fetch") <= 1
    /\ Times(i, "generateContent") <= 1
    /\ \A k \in 1..Len(events[i]) :
         events[i][k].e = "generateContent" =>
           /\ \E m \in 1..(k - 1) : events[i][m].e = "fetchOk"
           /\ \E m \in 1..(k - 1) : events[i][m].e = "bodyOk"
           /\ \A m \in 1..(k - 1) : ~IsFailure(events[i][m].e)
    /\ \A k \in 1..Len(events[i]) :
         IsFailure(events[i][k].e) =>
           \A m \in (k + 1)..Len(events[i]) : ~IsOutboundCall(events[i][m].e)
    /\ pc[i] \in {"awaitFetch", "awaitBody"} => ~Did(i, "generateContent")

C8_Witness ==
  \E i, j \in Invocations :
    /\ pc[i] = "done"
    /\ Did(i, "generateContent")
    /\ Did(i, "aiRejected")
    /\ pc[j] = "done"
    /\ Did(j, "fetchRejected")

\* The response the Gemini handler gives to request r when it runs on its own
\* with credential key and its fetch, body read and AI call settle as f, b, a
\* (NotSettled: not yet); NoResponse while it waits or when the exception escapes.
AloneResponse(r, key, f, b, a) ==
  IF r.method # "POST" THEN Response(405, [error |-> <<"Method not allowed">>])
  ELSE IF r.body = NoBody THEN NoResponse
  ELSE IF ~ValidBody(r.body)
  THEN Response(400, [error |-> <<"Missing required fields: userPhoto, productImage, or prompt">>])
  ELSE IF ~Truthy(key) THEN Response(500, [error |-> <<"Google API key not configured">>])
  ELSE IF f = NotSettled THEN NoResponse
  ELSE IF f.kind = "rejected" \/ ~f.ok THEN Response(500, GenericBody)
  ELSE IF b = NotSettled THEN NoResponse
  ELSE IF b.kind = "rejected" \/ r.body.userPhoto.t # "string" THEN Response(500, GenericBody)
  ELSE IF a = NotSettled THEN NoResponse
  ELSE IF a.kind = "result" /\ HasOutputField(a.response)
  THEN Response(200, [generatedImageUrl |->
                        <<"data:image/png;base64", ",">> \o OutputField(a.response)])
  ELSE Response(500, GenericBody)

\* The payload the Gemini handler sends to the AI client when it runs on its own.
AlonePayload(r, f, b) ==
  IF /\ f # NotSettled
     /\ b # NotSettled
     /\ b.kind = "bytes"
     /\ r.body.userPhoto.t = "string"
  THEN Payload(r.body.prompt.v, r.body.userPhoto.v, f.contentType, b.bytes)
  ELSE NoPayload

\* What invocation i holds.
StateOf(i) ==
  <<pc[i], req[i], fetched[i], bodyRead[i], content[i], result[i], mockUrl[i], res[i], events[i]>>

\* What invocation i holds after the step.
StateOfNext(i) ==
  <<pc'[i], req'[i], fetched'[i], bodyRead'[i], content'[i], result'[i], mockUrl'[i], res'[i],
    events'[i]>>

C9_OwnInputsOnly ==
  \A i \in Invocations :
    (handlerFile = "gemini" /\ Started(i)) =>
      /\ res[i] = AloneResponse(req[i], env.GOOGLE_API_KEY, fetched[i], bodyRead[i], result[i])
      /\ content[i] = AlonePayload(req[i], fetched[i], bodyRead[i])

C9_StepTouchesOneInvocation ==
  /\ \E i \in Invocations : \A j \in Invocations \ {i} : StateOfNext(j) = StateOf(j)
  /\ handlerFile' = handlerFile
  /\ env' = env
  /\ \E n \in 0..1 : Len(console') = Len(console) + n /\ SubSeq(console', 1, Len(console)) = console

\* C9: invocations are independent.  Under every interleaving of concurrently
\* running invocations, each invocation's response and AI payload are those
\* it produces when run alone on its own request, the credential and its own
\* fetch and AI-call results; a step of one invocation changes no other
\* invocation's state, the configuration is never written and the log is only
\* appended to.
C9_Independent == []C9_OwnInputsOnly /\ [][C9_StepTouchesOneInvocation]_vars

C9_Witness ==
  \E i, j \in Invocations :
    /\ i # j
    /\ handlerFile = "gemini"
    /\ pc[i] = "done"
    /\ res[i].status = 200
    /\ pc[j] = "done"
    /\ res[j].status = 500
    /\ req[j].body # NoBody
    /\ req[j].body.userPhoto.t = "number"
    /\ Did(j, "bodyOk")
    /\ content[i] # NoPayload
    /\ content[j] = NoPayload

LoggedBeforeResponse(i) ==
  /\ Did(i, "log")
  /\ FirstAt(i, "log") < FirstAt(i, "respond")
  /\ \E n \in 1..Len(console) : console[n] = events[i][FirstAt(i, "log")].d

\* C10 as stated: in every invocation that responds with status 500, a log
\* entry recording the error is written before the response is sent.
C10_Every500IsLogged ==
  \A i \in Invocations : res[i].status = 500 => LoggedBeforeResponse(i)

\* C10 as amended: every 500 response sent after the credential check has
\* passed is preceded by a log entry recording the error; the 500 response
\* for a missing credential is sent without any log entry.
C10_500IsLoggedUnlessKeyMissing ==
  \A i \in Invocations :
    res[i].status = 500 =>
      IF CredentialMissing THEN ~Did(i, "log") /\ console = <<>> ELSE LoggedBeforeResponse(i)

C10_Witness ==
  \E i \in Invocations :
    /\ res[i].status = 500
    /\ result[i].kind = "result"
    /\ Did(i, "log")

\* Every awaited call settles: the fetch, the body read and the AI call complete
\* or fail, and the mock handler's timer fires.
FairSpec ==
  /\ Spec
  /\ \A i \in Invocations :
       /\ WF_vars(FetchSettles(i))
       /\ WF_vars(BodySettles(i))
       /\ WF_vars(AISettles(i))
       /\ WF_vars(MockTimerFires(i))

Responded(i) == pc[i] = "done" /\ Times(i, "respond") = 1

C11_NothingEscapesNothingAfter ==
  \A i \in Invocations :
    /\ ~Did(i, "throw")
    /\ Times(i, "respond") <= 1
    /\ Did(i, "respond") =>
         /\ res[i].status \in {200, 400, 405, 500}
         /\ FirstAt(i, "respond") = Len(events[i])

\* C11: for every inbound request, a POST without a body included, and given
\* that each outbound call eventually completes or fails, the invocation
\* eventually sends exactly one response, with status 200, 400, 405 or 500; no
\* exception escapes the handler, and no outbound call or second response
\* follows the response.
C11_ExactlyOneResponse ==
  /\ []C11_NothingEscapesNothingAfter
  /\ \A i \in Invocations : Started(i) ~> Responded(i)

====
